---- MODULE Spec2Model ----
(***************************************************************************)
(* Model of the two plotting scripts of puffer:                            *)
(*   src/src/scripts/plot_ssim_rebuffer.py  (script "ssim_rebuffer")       *)
(*   src/src/scripts/plot_bbr_vs_cubic.py   (script "bbr_vs_cubic")        *)
(* The helpers (helpers.py, stream_processor.py, collect_data.py) are not  *)
(* part of the sources at hand; what the scripts need of them is modelled  *)
(* from the specification of the repository (spec.md).                     *)
(***************************************************************************)
EXTENDS Integers, Sequences, FiniteSets, TLC

(* ------------------------------ bounds -------------------------------- *)
\* windows produced by datetime_iter(args.start_time, args.end_time)
NumWindows == 2
\* points one query_measurement call returns at most
MaxWinPts == 2
\* points the time-series store holds over the queried range, both
\* measurements together
MaxPoints == 4
\* client_buffer timestamps are 0..MaxTs (seconds)
MaxTs == 2
\* an SSIM index is n / SsimScale, n in 1..SsimScale; n = SsimScale is the
\* index 1.0
SsimScale == 4
\* significand width of the floating-point sum d[abr_cc][0] (a Python float
\* has 53 bits; the model keeps the rounding at a reduced width)
MantBits == 2
\* chunks per session in collect_video_data's result
MaxChunks == 2

(* --------------------------- program constants ------------------------ *)
\* total_play / 60, plot_ssim_rebuffer.py:113
SecPerMin == 60
\* VIDEO_DURATION imported from collect_data, plot_bbr_vs_cubic.py:13
VIDEO_DURATION == 180180

EmptyMap == [x \in {} |-> 0]

Min(a, b) == IF a < b THEN a ELSE b
Max(a, b) == IF a > b THEN a ELSE b

(* ----------------------- experiment metadata -------------------------- *)
\* experiment ids that occur in the data (pt['expt_id'], session[3])
ExptIds == {1, 2}

\* str(pt['expt_id']): the decimal string of the id
Str(n) == IF n = 1 THEN "1" ELSE "2"

\* the rows of the metadata store: experiment id -> config payload
Postgres == ("1" :> [abr |-> "puffer", cc |-> "bbr"]) @@
            ("2" :> [abr |-> "linear_bba", cc |-> "cubic"])

\* retrieve_expt_config: is an external lookup issued for this id?
LookupNeeded(cache, id) == id \notin DOMAIN cache

\* retrieve_expt_config: the cache after resolving id
CacheAfter(cache, id) ==
    IF LookupNeeded(cache, id) THEN (id :> Postgres[id]) @@ cache ELSE cache

\* retrieve_expt_config: the number of lookups per id after resolving id
LookupsAfter(cache, n, id) ==
    IF LookupNeeded(cache, id) THEN [n EXCEPT ![id] = @ + 1] ELSE n

\* retrieve_expt_config: the config returned
retrieve_expt_config(cache, id) == CacheAfter(cache, id)[id]

\* get_abr_cc(expt_config): the scheme key (abr, cc)
get_abr_cc(cfg) == <<cfg.abr, cfg.cc>>

SchemeKeys == {get_abr_cc(Postgres[k]) : k \in DOMAIN Postgres}

(* --------------------------- float addition --------------------------- *)
RECURSIVE BitLen(_)
BitLen(x) == IF x = 0 THEN 0 ELSE 1 + BitLen(x \div 2)

\* round-to-nearest, ties-to-even, to MantBits significant bits
RoundFloat(x) ==
    IF x < 2^MantBits THEN x
    ELSE LET q  == 2^(BitLen(x) - MantBits)
             lo == (x \div q) * q
             r  == x - lo
         IN  IF 2 * r < q THEN lo
             ELSE IF 2 * r > q THEN lo + q
             ELSE IF (lo \div q) % 2 = 0 THEN lo ELSE lo + q

\* d[abr_cc][0] += ssim_index
FAdd(a, b) == RoundFloat(a + b)

(* ------------------------------ SSIM ---------------------------------- *)
\* a video_acked point: its experiment id and its SSIM field (absent, or n)
VideoPoints == [expt_id : ExptIds, has_ssim : {TRUE}, n : 1..SsimScale]
               \cup [expt_id : ExptIds, has_ssim : {FALSE}, n : {0}]

\* get_ssim_index(pt) is None
SsimIsNone(pt) == ~pt.has_ssim

\* the loop body of do_collect_ssim on the accumulator d: the pair after pt
AccumulateOverwrite(pair, pt) ==
    IF SsimIsNone(pt) THEN pair ELSE <<pt.n, pair[2] + 1>>
Accumulate(pair, pt) ==
    IF SsimIsNone(pt) THEN pair ELSE <<FAdd(pair[1], pt.n), pair[2] + 1>>

RECURSIVE Gcd(_, _)
Gcd(a, b) == IF b = 0 THEN a ELSE Gcd(b, a % b)

\* ssim_index_to_db(sum / count), the index being sum / (count * SsimScale):
\* -10 * log10(1 - index) is one-to-one on [0, 1), so the value is kept as
\* the reduced fraction it is taken of; at index 1 it is not a number
ssim_index_to_db(num, den) ==
    IF num >= den THEN [kind |-> "undefined", a |-> 1, b |-> 1]
    ELSE LET g == Gcd(num, den)
         IN  [kind |-> "db", a |-> num \div g, b |-> den \div g]

\* the averaging loop of collect_ssim: the final value of one entry
FinalEntry(pair) ==
    IF pair[2] = 0 THEN [kind |-> "raw", a |-> pair[1], b |-> pair[2]]
    ELSE ssim_index_to_db(pair[1], pair[2] * SsimScale)

(* -------------------- BufferStream (stream_processor) ----------------- *)
\* a session key: stream endpoint and experiment id
Sessions == {<<"u1", 1>>, <<"u2", 2>>}

\* a client_buffer point: its session, its timestamp and whether the client
\* was playing (TRUE) or stalled (FALSE)
BufferPoints == [session : Sessions, ts : 0..MaxTs, playing : BOOLEAN]

\* the interval since the session's last-seen timestamp goes to the total of
\* the prior state
AddElapsedSigned(s, pt) ==
    [s EXCEPT !.play = IF s.playing THEN @ + (s.last_ts - pt.ts) ELSE @,
              !.rebuf = IF s.playing THEN @ ELSE @ + (s.last_ts - pt.ts),
              !.last_ts = pt.ts,
              !.playing = pt.playing]
AddElapsed(s, pt) ==
    [s EXCEPT !.play = IF s.playing THEN @ + (pt.ts - s.last_ts) ELSE @,
              !.rebuf = IF s.playing THEN @ ELSE @ + (pt.ts - s.last_ts),
              !.last_ts = pt.ts,
              !.playing = pt.playing]

\* add_data_point: the session map after pt. A session is created on its
\* first sample; a sample older than the last-seen timestamp is skipped.
\* first_ts, min_ts and max_ts record the samples the session was fed: the
\* timestamp of the first one to arrive, the earliest and the latest
add_data_point_no_skip(smap, pt) ==
    IF pt.session \notin DOMAIN smap
    THEN (pt.session :> [first_ts |-> pt.ts, min_ts |-> pt.ts,
                         max_ts |-> pt.ts,
                         last_ts |-> pt.ts, playing |-> pt.playing,
                         play |-> 0, rebuf |-> 0]) @@ smap
    ELSE LET s == [smap[pt.session] EXCEPT !.min_ts = Min(@, pt.ts),
                                           !.max_ts = Max(@, pt.ts)]
         IN  [smap EXCEPT ![pt.session] = AddElapsed(s, pt)]
add_data_point(smap, pt) ==
    IF pt.session \notin DOMAIN smap
    THEN (pt.session :> [first_ts |-> pt.ts, min_ts |-> pt.ts,
                         max_ts |-> pt.ts,
                         last_ts |-> pt.ts, playing |-> pt.playing,
                         play |-> 0, rebuf |-> 0]) @@ smap
    ELSE LET s == [smap[pt.session] EXCEPT !.min_ts = Min(@, pt.ts),
                                           !.max_ts = Max(@, pt.ts)]
         IN  IF pt.ts < s.last_ts
             THEN [smap EXCEPT ![pt.session] = s]
             ELSE [smap EXCEPT ![pt.session] = AddElapsed(s, pt)]

\* done_data_points: every session held is flushed into the aggregate of its
\* scheme, the scheme resolved through the shared experiment cache
RECURSIVE DoneFold(_, _, _, _, _)
DoneFold(todo, smap, cache, n, agg) ==
    IF todo = {} THEN [cache |-> cache, n |-> n, out |-> agg]
    ELSE LET ses     == CHOOSE x \in todo : TRUE
             expt_id == Str(ses[2])
             abr_cc  == get_abr_cc(retrieve_expt_config(cache, expt_id))
             agg0    == IF abr_cc \in DOMAIN agg THEN agg
                        ELSE (abr_cc :> [total_play |-> 0, total_rebuf |-> 0])
                             @@ agg
         IN  DoneFold(todo \ {ses}, smap,
                      CacheAfter(cache, expt_id),
                      LookupsAfter(cache, n, expt_id),
                      [agg0 EXCEPT ![abr_cc] =
                          [total_play |-> @.total_play + smap[ses].play,
                           total_rebuf |-> @.total_rebuf + smap[ses].rebuf]])

done_data_points(smap, cache, n, agg) ==
    DoneFold(DOMAIN smap, smap, cache, n, agg)

\* collect_rebuffer, line 83: BufferStream(expt, postgres_cursor) is given
\* the cache do_collect_ssim fills
BufferStreamCacheFresh(cache) == EmptyMap
BufferStreamCache(cache) == cache

\* collect_rebuffer, lines 85-88: the loop over the windows is over
LoopOverEarly(w, pend) == pend = 0
LoopOver(w, pend) == w = NumWindows /\ pend = 0

(* ------------------------------ reporter ------------------------------ *)
\* main, line 167: not ssim or not rebuffer
NoDataBoth(s, r) == DOMAIN s = {} /\ DOMAIN r = {}
NoData(s, r) == DOMAIN s = {} \/ DOMAIN r = {}

\* np.ceil(total_play / 60)
CeilDiv(a, b) == (a + b - 1) \div b

(* ------------------------ plot_bbr_vs_cubic.py ------------------------ *)
\* the session keys of collect_video_data / collect_buffer_data; the last
\* component, session[3], is the experiment id
BbrSessions == {<<"u1", "1">>, <<"u2", "2">>}

\* video_ts of chunk i
ChunkTs(i) == i * VIDEO_DURATION
ChunkTimes == {ChunkTs(i) : i \in 0..(MaxChunks - 1)}

\* what one session maps to in collect_video_data's result:
\* video_ts -> the chunk's ssim_index (as n, the index being n / SsimScale)
ChunkMaps == UNION {[T -> {1, SsimScale}] : T \in SUBSET ChunkTimes}

\* collect_video_data's results
VideoData == UNION {[S -> ChunkMaps] : S \in SUBSET BbrSessions}

\* collect_buffer_data's results: session -> play and rebuffer seconds; a
\* session with no play time is recorded too
BufferData == UNION {[S -> [play : 0..1, rebuf : 0..1]] : S \in SUBSET BbrSessions}

\* plot_ssim, lines 99-101: the chunk is left out
IsDegenerate(n) == n = SsimScale

\* plot_ssim, lines 95-104: the entries one session appends to ssim_by_cc
SsimEntries(ses, chunks) ==
    {[session |-> ses, ts |-> t, db |-> ssim_index_to_db(chunks[t], SsimScale)] :
        t \in {u \in DOMAIN chunks : ~IsDegenerate(chunks[u])}}

\* plot_ssim, lines 106-117: the entries one session appends to
\* ssim_var_by_cc; the entry stands for abs(curr_ssim_db - prev_ssim_db)
SsimVarEntries(ses, chunks) ==
    {[session |-> ses, ts |-> t,
      curr |-> ssim_index_to_db(chunks[t], SsimScale),
      prev |-> ssim_index_to_db(chunks[t - VIDEO_DURATION], SsimScale)] :
        t \in {u \in DOMAIN chunks :
                  /\ ~IsDegenerate(chunks[u])
                  /\ (u - VIDEO_DURATION) \in DOMAIN chunks
                  /\ ~IsDegenerate(chunks[u - VIDEO_DURATION])}}

\* by_cc[cc] with entries appended, the list created when cc is new
AppendTo(by_cc, cc, entries) ==
    IF cc \in DOMAIN by_cc THEN [by_cc EXCEPT ![cc] = @ \cup entries]
    ELSE (cc :> entries) @@ by_cc

(* ------------------------------ state --------------------------------- *)
VARIABLES
    script,     \* which script runs
    pc,         \* position of main
    expt,       \* the experiment cache (expt / expt_id_cache)
    lookups,    \* external lookups issued so far, per experiment id
    budget,     \* points the store has not returned yet
    winS,       \* collect_ssim: windows queried
    pendS,      \* do_collect_ssim: number of points of the result not yet processed
    d,          \* collect_ssim: abr_cc -> <<sum, count>>, then the result
    dOrder,     \* insertion order of d's keys
    fed,        \* the video_acked points the running collect_ssim has
                \* processed, as a bag (a record of the call, dropped at
                \* its return)
    winR,       \* collect_rebuffer: windows queried
    pendR,      \* do_collect_rebuffer: number of points of the result not yet added
    smap,       \* BufferStream: the sessions in progress
    out,        \* BufferStream.out: abr_cc -> totals
    doneCount,  \* calls of done_data_points so far
    addedPts,   \* calls of add_data_point so far
    gotPts,     \* client_buffer points the queries returned so far
    lateAdds,   \* calls of add_data_point after done_data_points
    rebuffer,   \* main: the mapping collect_rebuffer returned
    plotIdx,    \* plot_ssim_rebuffer: keys of ssim handled
    plotted,    \* plot_ssim_rebuffer: the points handed to ax.scatter
    zeroDiv,    \* a division by zero has happened
    saved,      \* fig.savefig has written the plot
    video_data,       \* plot_bbr_vs_cubic: collect_video_data's result
    buffer_data,      \* plot_bbr_vs_cubic: collect_buffer_data's result
    todo,             \* sessions the running loop has not reached yet
    ssim_by_cc,       \* plot_ssim: cc -> entries
    ssim_var_by_cc,   \* plot_ssim: cc -> entries
    rebuf_rate_by_cc  \* plot_rebuf_rate: cc -> entries

ssimVars == <<winS, pendS, d, dOrder, fed>>
rebufVars == <<winR, pendR, smap, out, doneCount, addedPts, gotPts, lateAdds,
               rebuffer>>
plotVars == <<plotIdx, plotted, zeroDiv, saved>>
bbrVars == <<video_data, buffer_data, todo, ssim_by_cc, ssim_var_by_cc,
             rebuf_rate_by_cc>>
vars == <<script, pc, expt, lookups, budget, ssimVars, rebufVars, plotVars,
          bbrVars>>

\* what both scripts start from
InitCommon ==
    /\ lookups = [k \in DOMAIN Postgres |-> 0]
    /\ budget = MaxPoints
    /\ winS = 0
    /\ pendS = 0
    /\ d = EmptyMap
    /\ dOrder = <<>>
    /\ fed = [p \in VideoPoints |-> 0]
    /\ winR = 0
    /\ pendR = 0
    /\ smap = EmptyMap
    /\ out = EmptyMap
    /\ doneCount = 0
    /\ addedPts = 0
    /\ gotPts = 0
    /\ lateAdds = 0
    /\ rebuffer = EmptyMap
    /\ plotIdx = 1
    /\ plotted = {}
    /\ zeroDiv = FALSE
    /\ saved = FALSE
    /\ ssim_by_cc = EmptyMap
    /\ ssim_var_by_cc = EmptyMap
    /\ rebuf_rate_by_cc = EmptyMap

\* plot_ssim_rebuffer.py, main, lines 143-161: expt is loaded from the --expt
\* file, or stays empty and a Postgres cursor is opened
InitSsimRebuffer ==
    /\ script = "ssim_rebuffer"
    /\ pc = "collect_ssim"
    /\ expt \in {EmptyMap, Postgres}
    /\ video_data = EmptyMap
    /\ buffer_data = EmptyMap
    /\ todo = {}

\* plot_bbr_vs_cubic.py, line 17 and main, lines 196-204
InitBbrVsCubic ==
    /\ script = "bbr_vs_cubic"
    /\ pc = "plot_ssim"
    /\ expt = EmptyMap
    /\ video_data \in VideoData
    /\ buffer_data \in BufferData
    /\ todo = DOMAIN video_data

Init ==
    /\ InitCommon
    /\ (InitSsimRebuffer \/ InitBbrVsCubic)

(* ------------------ plot_ssim_rebuffer.py: collect_ssim --------------- *)
\* do_collect_ssim, lines 34-35: the query of the next window. The result is
\* kept as its length; the fields of a point are drawn when the loop reaches it
SsimQuery ==
    /\ script = "ssim_rebuffer" /\ pc = "collect_ssim"
    /\ pendS = 0 /\ winS < NumWindows
    /\ \E len \in 0..Min(MaxWinPts, budget) :
          /\ pendS' = len
          /\ budget' = budget - len
    /\ winS' = winS + 1
    /\ UNCHANGED <<script, pc, expt, lookups, d, dOrder, fed, rebufVars, plotVars, bbrVars>>

\* do_collect_ssim, lines 37-48: one iteration of the loop
SsimPoint ==
    /\ script = "ssim_rebuffer" /\ pc = "collect_ssim"
    /\ pendS > 0
    /\ \E pt \in VideoPoints :
       LET expt_id == Str(pt.expt_id)
           abr_cc  == get_abr_cc(retrieve_expt_config(expt, expt_id))
           d0      == IF abr_cc \in DOMAIN d THEN d
                      ELSE (abr_cc :> <<0, 0>>) @@ d
       IN  /\ expt' = CacheAfter(expt, expt_id)
           /\ lookups' = LookupsAfter(expt, lookups, expt_id)
           /\ d' = [d0 EXCEPT ![abr_cc] = Accumulate(@, pt)]
           /\ dOrder' = IF abr_cc \in DOMAIN d THEN dOrder
                        ELSE Append(dOrder, abr_cc)
           /\ fed' = [fed EXCEPT ![pt] = @ + 1]
    /\ pendS' = pendS - 1
    /\ UNCHANGED <<script, pc, budget, winS, rebufVars, plotVars, bbrVars>>

\* collect_ssim, lines 57-68: the averaging loop and the return
SsimFinalize ==
    /\ script = "ssim_rebuffer" /\ pc = "collect_ssim"
    /\ pendS = 0 /\ winS = NumWindows
    /\ d' = [k \in DOMAIN d |-> FinalEntry(d[k])]
    /\ fed' = [p \in VideoPoints |-> 0]
    /\ pc' = "collect_rebuffer"
    /\ UNCHANGED <<script, expt, lookups, budget, winS, pendS, dOrder,
                   rebufVars, plotVars, bbrVars>>

(* ---------------- plot_ssim_rebuffer.py: collect_rebuffer ------------- *)
\* do_collect_rebuffer, lines 75-76: the query of the next window (the result
\* kept as its length)
RebufQuery ==
    /\ script = "ssim_rebuffer" /\ pc = "collect_rebuffer"
    /\ pendR = 0 /\ winR < NumWindows
    /\ \E len \in 0..Min(MaxWinPts, budget) :
          /\ pendR' = len
          /\ budget' = budget - len
          /\ gotPts' = gotPts + len
    /\ winR' = winR + 1
    /\ UNCHANGED <<script, pc, expt, lookups, ssimVars, smap, out, doneCount,
                   addedPts, lateAdds, rebuffer, plotVars, bbrVars>>

\* do_collect_rebuffer, lines 78-79: one iteration of the loop
RebufAdd ==
    /\ script = "ssim_rebuffer" /\ pc = "collect_rebuffer"
    /\ pendR > 0
    /\ \E pt \in BufferPoints : smap' = add_data_point(smap, pt)
    /\ pendR' = pendR - 1
    /\ addedPts' = addedPts + 1
    /\ lateAdds' = IF doneCount > 0 THEN lateAdds + 1 ELSE lateAdds
    /\ UNCHANGED <<script, pc, expt, lookups, budget, ssimVars, winR, out,
                   doneCount, gotPts, rebuffer, plotVars, bbrVars>>

\* collect_rebuffer, line 88: buffer_stream.done_data_points()
RebufDone ==
    /\ script = "ssim_rebuffer" /\ pc = "collect_rebuffer"
    /\ LoopOver(winR, pendR)
    /\ doneCount = 0
    /\ LET r == done_data_points(smap, BufferStreamCache(expt), lookups, out)
       IN  /\ expt' = r.cache
           /\ lookups' = r.n
           /\ out' = r.out
    /\ smap' = EmptyMap
    /\ doneCount' = doneCount + 1
    /\ UNCHANGED <<script, pc, budget, ssimVars, winR, pendR, addedPts,
                   gotPts, lateAdds, rebuffer, plotVars, bbrVars>>

\* collect_rebuffer, line 90, and main, line 165: rebuffer = buffer_stream.out
RebufReturn ==
    /\ script = "ssim_rebuffer" /\ pc = "collect_rebuffer"
    /\ doneCount > 0
    /\ rebuffer' = out
    /\ pc' = "check"
    /\ UNCHANGED <<script, expt, lookups, budget, ssimVars, winR, pendR, smap,
                   out, doneCount, addedPts, gotPts, lateAdds, plotVars, bbrVars>>

(* ---------------------- plot_ssim_rebuffer.py: main ------------------- *)
\* main, lines 167-174
MainCheck ==
    /\ script = "ssim_rebuffer" /\ pc = "check"
    /\ pc' = IF NoData(d, rebuffer) THEN "exit_no_data" ELSE "plot"
    /\ UNCHANGED <<script, expt, lookups, budget, ssimVars, rebufVars,
                   plotVars, bbrVars>>

\* plot_ssim_rebuffer, lines 101-120: one iteration of the loop over ssim
PlotKey ==
    /\ script = "ssim_rebuffer" /\ pc = "plot"
    /\ plotIdx <= Len(dOrder)
    /\ LET abr_cc == dOrder[plotIdx]
       IN  IF abr_cc \notin DOMAIN rebuffer
           THEN /\ pc' = "exit_missing"
                /\ UNCHANGED plotVars
           ELSE LET total_minutes ==
                        CeilDiv(rebuffer[abr_cc].total_play, SecPerMin)
                IN  /\ zeroDiv' = (zeroDiv \/ total_minutes = 0)
                    /\ plotted' = plotted \cup
                           {[key |-> abr_cc, minutes |-> total_minutes,
                             y |-> d[abr_cc]]}
                    /\ plotIdx' = plotIdx + 1
                    /\ UNCHANGED <<pc, saved>>
    /\ UNCHANGED <<script, expt, lookups, budget, ssimVars, rebufVars, bbrVars>>

\* plot_ssim_rebuffer, lines 122-131: the plot is saved
PlotSave ==
    /\ script = "ssim_rebuffer" /\ pc = "plot"
    /\ plotIdx > Len(dOrder)
    /\ saved' = TRUE
    /\ pc' = "done"
    /\ UNCHANGED <<script, expt, lookups, budget, ssimVars, rebufVars,
                   plotIdx, plotted, zeroDiv, bbrVars>>

(* ---------------------- plot_bbr_vs_cubic.py: main -------------------- *)
\* plot_ssim, lines 86-117: one iteration of the loop over the sessions
PlotSsimSession ==
    /\ script = "bbr_vs_cubic" /\ pc = "plot_ssim"
    /\ \E ses \in todo :
          LET expt_id == ses[2]
              cc      == retrieve_expt_config(expt, expt_id).cc
          IN  /\ expt' = CacheAfter(expt, expt_id)
              /\ lookups' = LookupsAfter(expt, lookups, expt_id)
              /\ ssim_by_cc' =
                    AppendTo(ssim_by_cc, cc, SsimEntries(ses, video_data[ses]))
              /\ ssim_var_by_cc' =
                    AppendTo(ssim_var_by_cc, cc,
                             SsimVarEntries(ses, video_data[ses]))
              /\ todo' = todo \ {ses}
    /\ UNCHANGED <<script, pc, budget, ssimVars, rebufVars, plotVars,
                   video_data, buffer_data, rebuf_rate_by_cc>>

\* plot_ssim, lines 119-123, and main, line 210: the CDFs are plotted and
\* plot_rebuf_rate starts
PlotSsimEnd ==
    /\ script = "bbr_vs_cubic" /\ pc = "plot_ssim"
    /\ todo = {}
    /\ pc' = "plot_rebuf_rate"
    /\ todo' = DOMAIN buffer_data
    /\ UNCHANGED <<script, expt, lookups, budget, ssimVars, rebufVars,
                   plotVars, video_data, buffer_data, ssim_by_cc,
                   ssim_var_by_cc, rebuf_rate_by_cc>>

\* plot_rebuf_rate, lines 169-177: one iteration of the loop over the
\* sessions; 100 * rebuf / play raises ZeroDivisionError at play = 0
PlotRebufRateSession ==
    /\ script = "bbr_vs_cubic" /\ pc = "plot_rebuf_rate"
    /\ \E ses \in todo :
          LET expt_id == ses[2]
              cc      == retrieve_expt_config(expt, expt_id).cc
              by_cc   == AppendTo(rebuf_rate_by_cc, cc, {})
          IN  /\ expt' = CacheAfter(expt, expt_id)
              /\ lookups' = LookupsAfter(expt, lookups, expt_id)
              /\ IF buffer_data[ses].play = 0
                 THEN /\ zeroDiv' = TRUE
                      /\ pc' = "zero_division"
                      /\ rebuf_rate_by_cc' = by_cc
                 ELSE /\ rebuf_rate_by_cc' =
                            AppendTo(by_cc, cc,
                                     {[session |-> ses,
                                       rebuf |-> buffer_data[ses].rebuf,
                                       play |-> buffer_data[ses].play]})
                      /\ UNCHANGED <<zeroDiv, pc>>
              /\ todo' = todo \ {ses}
    /\ UNCHANGED <<script, budget, ssimVars, rebufVars, plotIdx, plotted,
                   saved, video_data, buffer_data, ssim_by_cc, ssim_var_by_cc>>

\* plot_rebuf_rate, lines 179-180, and main, line 212
PlotRebufRateEnd ==
    /\ script = "bbr_vs_cubic" /\ pc = "plot_rebuf_rate"
    /\ todo = {}
    /\ pc' = "done"
    /\ UNCHANGED <<script, expt, lookups, budget, ssimVars, rebufVars,
                   plotVars, bbrVars>>

Next ==
    \/ SsimQuery
    \/ SsimPoint
    \/ SsimFinalize
    \/ RebufQuery
    \/ RebufAdd
    \/ RebufDone
    \/ RebufReturn
    \/ MainCheck
    \/ PlotKey
    \/ PlotSave
    \/ PlotSsimSession
    \/ PlotSsimEnd
    \/ PlotRebufRateSession
    \/ PlotRebufRateEnd

Spec == Init /\ [][Next]_vars

(* ======================== properties of the scripts =================== *)
InSsimRebuffer == script = "ssim_rebuffer"
InBbrVsCubic == script = "bbr_vs_cubic"

\* the scheme key of an experiment id of the data
SchemeOf(id) == get_abr_cc(Postgres[Str(id)])

\* the number of processed video_acked points among the set S
RECURSIVE FedCount(_)
FedCount(S) ==
    IF S = {} THEN 0
    ELSE LET p == CHOOSE x \in S : TRUE IN fed[p] + FedCount(S \ {p})

\* the processed video_acked points of scheme k
PointsOf(k) == {p \in VideoPoints : SchemeOf(p.expt_id) = k}
SeenSchemes == {k \in SchemeKeys : FedCount(PointsOf(k)) > 0}

\* the exact sum of the SSIM indices processed for scheme k
RECURSIVE FedSum(_)
FedSum(S) ==
    IF S = {} THEN 0
    ELSE LET p == CHOOSE x \in S : TRUE
         IN  fed[p] * p.n + FedSum(S \ {p})

\* the floating-point sum of the indices processed for scheme k when they
\* are added in ascending order: a value that depends on the multiset only
RECURSIVE AddTimes(_, _, _)
AddTimes(acc, v, times) ==
    IF times = 0 THEN acc ELSE AddTimes(FAdd(acc, v), v, times - 1)

RECURSIVE AscendingSum(_, _, _)
AscendingSum(k, v, acc) ==
    IF v > SsimScale THEN acc
    ELSE AscendingSum(k, v + 1,
            AddTimes(acc, v,
                FedCount({p \in PointsOf(k) : p.has_ssim /\ p.n = v})))

\* all windows of collect_ssim are queried and processed, d not yet averaged
SsimCollected ==
    InSsimRebuffer /\ pc = "collect_ssim" /\ winS = NumWindows /\ pendS = 0

\* collect_ssim has returned
SsimReturned == InSsimRebuffer /\ pc # "collect_ssim"

\* every ssim entry is an average in dB and no scheme plotted had zero minutes
CleanReport ==
    /\ \A k \in DOMAIN d : d[k].kind = "db"
    /\ ~zeroDiv

(* C1: in plot_ssim_rebuffer, a scheme present in exactly one of the two
   aggregates ends the run with the missing-counterpart error and no plot is
   saved; a plot is saved only when the two key sets are equal. Stated for
   runs whose aggregates are otherwise well-formed. *)
C1_SavedOnlyIfKeySetsEqual ==
    (InSsimRebuffer /\ pc \in {"done", "exit_missing"} /\ CleanReport) =>
        /\ (DOMAIN d # DOMAIN rebuffer => pc = "exit_missing" /\ ~saved)
        /\ (saved => DOMAIN d = DOMAIN rebuffer)

(* C2: when done_data_points runs (all windows added), every session's play
   and rebuffer totals add up to the span between the earliest and the latest timestamp it
   was fed, whatever the arrival order. *)
C2_TotalsEqualSpan ==
    (InSsimRebuffer /\ LoopOver(winR, pendR)) =>
        \A ses \in DOMAIN smap :
            smap[ses].play + smap[ses].rebuf
                = smap[ses].max_ts - smap[ses].min_ts

(* C2 as amended: the totals add up to the span between the timestamp of the
   session's first sample to arrive and the latest timestamp it was fed. *)
C2_TotalsEqualSpanSinceFirst ==
    (InSsimRebuffer /\ LoopOver(winR, pendR)) =>
        \A ses \in DOMAIN smap :
            smap[ses].play + smap[ses].rebuf
                = smap[ses].max_ts - smap[ses].first_ts

\* a session about to be finalized that was fed a sample older than its
\* first one
C2_Witness ==
    /\ InSsimRebuffer /\ LoopOver(winR, pendR)
    /\ \E ses \in DOMAIN smap :
          /\ smap[ses].min_ts < smap[ses].first_ts
          /\ smap[ses].play + smap[ses].rebuf > 0

(* C3: done_data_points runs exactly once, only after every window has been
   queried and every point returned has been passed to add_data_point; no
   point is added after it and the aggregate is returned only after it. *)
C3_DoneOnceAfterAllWindows ==
    InSsimRebuffer =>
        /\ doneCount <= 1
        /\ lateAdds = 0
        /\ (doneCount = 1 =>
               winR = NumWindows /\ pendR = 0 /\ addedPts = gotPts)
        /\ (pc \notin {"collect_ssim", "collect_rebuffer"} => doneCount = 1)
        /\ (doneCount = 0 => rebuffer = EmptyMap)

\* the aggregate has been returned after points of two windows were added
C3_Witness ==
    /\ InSsimRebuffer /\ pc = "check"
    /\ doneCount = 1 /\ addedPts > MaxWinPts
    /\ rebuffer # EmptyMap

(* C4: when the ssim aggregate or the rebuffer aggregate is empty, main ends
   with the no-data error and plot_ssim_rebuffer is never entered; the
   reporter runs only when both are non-empty. *)
C4_NoDataExit ==
    InSsimRebuffer =>
        /\ (pc \in {"plot", "done", "exit_missing"} =>
               DOMAIN d # {} /\ DOMAIN rebuffer # {})
        /\ (pc = "exit_no_data" =>
               /\ (DOMAIN d = {} \/ DOMAIN rebuffer = {})
               /\ ~saved /\ plotted = {} /\ plotIdx = 1)
        /\ (saved => DOMAIN d # {} /\ DOMAIN rebuffer # {})

\* the run ended with the no-data error although SSIM data was collected
C4_Witness ==
    /\ InSsimRebuffer /\ pc = "exit_no_data"
    /\ DOMAIN d # {} /\ DOMAIN rebuffer = {}

(* C5: a sample whose SSIM index is exactly 1 contributes to no aggregate:
   in do_collect_ssim the count of a scheme is the number of its samples
   with an index other than 1, and in plot_ssim it is in neither list, as
   current or as previous chunk. *)
C5_IndexOneExcluded ==
    /\ (InSsimRebuffer /\ pc = "collect_ssim") =>
          \A k \in DOMAIN d :
              d[k][2] = FedCount({p \in PointsOf(k) :
                                     p.has_ssim /\ p.n # SsimScale})
    /\ InBbrVsCubic =>
          /\ \A cc \in DOMAIN ssim_by_cc : \A e \in ssim_by_cc[cc] :
                video_data[e.session][e.ts] # SsimScale
          /\ \A cc \in DOMAIN ssim_var_by_cc : \A e \in ssim_var_by_cc[cc] :
                /\ video_data[e.session][e.ts] # SsimScale
                /\ video_data[e.session][e.ts - VIDEO_DURATION] # SsimScale
          /\ (pc # "plot_ssim" =>
                \A cc \in DOMAIN ssim_by_cc :
                    Cardinality(ssim_by_cc[cc]) =
                        Cardinality({x \in (DOMAIN video_data) \X ChunkTimes :
                            /\ Postgres[x[1][2]].cc = cc
                            /\ x[2] \in DOMAIN video_data[x[1]]
                            /\ video_data[x[1]][x[2]] # SsimScale}))

(* C6: an experiment id already in the cache is resolved without a lookup and
   its entry is never removed or changed; the SSIM path and the rebuffer path
   share the cache, so no id is looked up more than once in a run. *)
C6_OneLookupPerExperiment ==
    [][/\ \A k \in DOMAIN expt :
             /\ k \in DOMAIN expt'
             /\ expt'[k] = expt[k]
             /\ lookups'[k] = lookups[k]
       /\ \A k \in DOMAIN lookups' : lookups'[k] <= 1]_vars

\* an experiment resolved by do_collect_ssim and again by done_data_points,
\* looked up once
C6_Witness ==
    /\ InSsimRebuffer /\ doneCount = 1
    /\ \E id \in ExptIds :
          /\ lookups[Str(id)] = 1
          /\ SchemeOf(id) \in DOMAIN d
          /\ SchemeOf(id) \in DOMAIN out

(* C7: every session's totals satisfy play >= rebuf >= 0 after any sequence
   of samples. *)
C7_PlayAtLeastRebuf ==
    InSsimRebuffer =>
        \A ses \in DOMAIN smap :
            smap[ses].play >= smap[ses].rebuf /\ smap[ses].rebuf >= 0

(* C7 as amended: every session's totals are non-negative; the rebuffer
   total may exceed the play total. *)
C7_TotalsNonNegative ==
    InSsimRebuffer =>
        \A ses \in DOMAIN smap : smap[ses].play >= 0 /\ smap[ses].rebuf >= 0

\* a session that stalled for longer than it played
C7_Witness ==
    /\ InSsimRebuffer
    /\ \E ses \in DOMAIN smap : smap[ses].rebuf > smap[ses].play

\* no processed point has the index 1.0 (which C5 wants left out)
NoIndexOneFed == FedCount({p \in VideoPoints : p.n = SsimScale}) = 0

(* C8: the (sum, count) pair of every scheme, hence the key set and the
   average, depends only on the multiset of points processed, not on their
   order nor on their split into windows: it is the pair that adding the
   same points in ascending order gives. Stated for inputs without an index
   of 1.0, so that it does not rest on how such a sample is treated. *)
C8_OrderIndependent ==
    (NoIndexOneFed /\ SsimCollected) =>
        /\ DOMAIN d = SeenSchemes
        /\ \A k \in DOMAIN d :
              LET pair == <<AscendingSum(k, 1, 0),
                            FedCount({p \in PointsOf(k) : p.has_ssim})>>
              IN  d[k] = pair /\ FinalEntry(d[k]) = FinalEntry(pair)

(* C8 as amended: the key set and the count of every scheme depend only on
   the multiset of points processed; the sum is the exact sum of the indices
   whenever that sum needs no rounding. *)
C8_KeysAndCountsOrderIndependent ==
    SsimCollected =>
        /\ DOMAIN d = SeenSchemes
        /\ \A k \in DOMAIN d :
              /\ d[k][2] = FedCount({p \in PointsOf(k) : p.has_ssim})
              /\ (FedSum(PointsOf(k)) < 2^MantBits =>
                     d[k][1] = FedSum(PointsOf(k)))

\* a scheme fed three indices over the windows, their sum rounded
C8_Witness ==
    /\ SsimCollected /\ NoIndexOneFed
    /\ \E k \in DOMAIN d :
          d[k][2] >= 3 /\ d[k][1] # FedSum(PointsOf(k))

(* C9: a session or scheme with no play time is never used as a divisor:
   no division by zero happens and no point is plotted from zero minutes. *)
C9_NoZeroDivisor ==
    /\ ~zeroDiv
    /\ \A p \in plotted : p.minutes > 0
    /\ \A cc \in DOMAIN rebuf_rate_by_cc : \A e \in rebuf_rate_by_cc[cc] :
          e.play > 0

(* C10: every entry of the mapping collect_ssim returns is an average in dB
   computed from a count > 0; no raw [sum, count] pair stays in it or is
   handed to the plot as a y value. *)
C10_ResultHoldsNoRawPair ==
    SsimReturned =>
        /\ \A k \in DOMAIN d : d[k].kind # "raw"
        /\ \A p \in plotted : p.y.kind # "raw"

====
